---- MODULE Spec2Model ----
(***************************************************************************)
(* Model of argparse's option definition (src/argument.go): the matching   *)
(* predicate check, the token erasure reduce, the binder parse and the     *)
(* rendered name.                                                          *)
(*                                                                         *)
(* A Go string is modelled as the sequence of its characters, each a       *)
(* one-character TLA+ string; the literal text of a fmt.Errorf format is   *)
(* kept as one element.  Positions are Go's, counted from 0.               *)
(***************************************************************************)
EXTENDS Integers, Sequences, FiniteSets, TLC

VARIABLES
    o,         \* the arg: its fields fixed at construction
    parsed,    \* arg.parsed
    result,    \* the value behind arg.result
    args,      \* the caller's token list handed to reduce
    exited,    \* os.Exit(0) was called
    panicked,  \* an index went out of range
    calls,     \* number of parse calls made so far
    bound,     \* the tokens of the parse calls that returned nil, in call order
    last       \* the latest call: its inputs, its return, the state before it

vars == <<o, parsed, result, args, exited, panicked, calls, bound, last>>

----------------------------------------------------------------------------
(* Bounds *)

MaxTokLen == 3      \* longest generated token
MaxArgs == 3        \* longest token list handed to reduce
MaxSize == 2        \* largest arg.size
MaxBindArgs == 2    \* longest slice handed to parse
MaxCalls == 3       \* parse calls per instance

----------------------------------------------------------------------------
(* Strings *)

Empty == <<>>

HasPrefix(s, p) == Len(s) >= Len(p) /\ SubSeq(s, 1, Len(p)) = p

\* s[n:] of Go
From(s, n) == SubSeq(s, n + 1, Len(s))

Contains(s, sub) ==
    \E i \in 0..(Len(s) - Len(sub)) : SubSeq(s, i + 1, i + Len(sub)) = sub

\* strings.Replace(s, old, "", -1) for a non-empty old
RECURSIVE Replace(_, _)
Replace(s, old) ==
    IF Len(s) < Len(old) THEN s
    ELSE IF HasPrefix(s, old) THEN Replace(From(s, Len(old)), old)
    ELSE <<s[1]>> \o Replace(Tail(s), old)

Marker == "-"
ShortHelp == <<"-", "h">>
LongHelp == <<"-", "-", "h", "e", "l", "p">>

----------------------------------------------------------------------------
(* name *)

\* the long name left out when both are set
nameShortFirst(d) ==
    IF d.sname # Empty THEN <<"-">> \o d.sname ELSE <<"-", "-">> \o d.lname

name(d) ==
    IF d.lname = Empty THEN <<"-">> \o d.sname
    ELSE IF d.sname = Empty THEN <<"-", "-">> \o d.lname
    ELSE <<"-">> \o d.sname \o <<"|">> \o <<"-", "-">> \o d.lname

----------------------------------------------------------------------------
(* check *)

\* only the short marker recognised
isHelpShortOnly(argument) == argument = ShortHelp

isHelp(argument) == argument = ShortHelp \/ argument = LongHelp

matchLong(d, argument) ==
    /\ d.lname # Empty
    /\ Len(argument) > 2
    /\ HasPrefix(argument, <<"-", "-">>)
    /\ argument[3] # Marker
    /\ From(argument, 2) = d.lname

isShortForm(d, argument) ==
    /\ d.sname # Empty
    /\ Len(argument) > 1
    /\ HasPrefix(argument, <<"-">>)
    /\ argument[2] # Marker

matchCluster(d, argument) ==
    /\ isShortForm(d, argument)
    /\ d.kind = "bool"
    /\ Contains(From(argument, 1), d.sname)

matchShort(d, argument) ==
    /\ isShortForm(d, argument)
    /\ d.kind # "bool"
    /\ From(argument, 1) = d.sname

\* "exit" when the help shortcut ends the process, else the returned boolean
check(d, argument) ==
    IF isHelp(argument) THEN "exit"
    ELSE IF matchLong(d, argument) THEN "true"
    ELSE IF matchCluster(d, argument) \/ matchShort(d, argument) THEN "true"
    ELSE "false"

----------------------------------------------------------------------------
(* reduce *)

\* i <= position+size: one token too many
blankOneMore(list, position, size) ==
    [args |-> [i \in 1..Len(list) |->
                  IF position + 1 <= i /\ i <= position + size + 1
                  THEN Empty ELSE list[i]],
     panicked |-> position + size + 1 > Len(list)]

\* for i := position; i < position+size; i++ { (*args)[i] = "" }
\* An i beyond the list panics after the earlier writes were made.
blank(list, position, size) ==
    [args |-> [i \in 1..Len(list) |->
                  IF position + 1 <= i /\ i <= position + size
                  THEN Empty ELSE list[i]],
     panicked |-> size > 0 /\ position + size > Len(list)]

\* the bare marker left behind
removeShortKeepMarker(d, argument) == Replace(argument, d.sname)

removeShort(d, argument) ==
    LET r == Replace(argument, d.sname)
    IN IF r = <<Marker>> THEN Empty ELSE r

reduce(d, position, list) ==
    LET argument == list[position + 1]
        l == IF matchLong(d, argument)
             THEN blank(list, position, d.size)
             ELSE [args |-> list, panicked |-> FALSE]
    IN IF l.panicked THEN l
       ELSE IF matchCluster(d, argument)
            THEN [args |-> [l.args EXCEPT ![position + 1] = removeShort(d, argument)],
                  panicked |-> FALSE]
       ELSE IF matchShort(d, argument)
            THEN blank(l.args, position, d.size)
       ELSE l

----------------------------------------------------------------------------
(* parse *)

NoErr == [kind |-> "nil", msg |-> Empty]

\* fmt.Errorf("[%s] can only be present once", o.name())
ErrDuplicate(d) ==
    [kind |-> "DuplicateOption",
     msg |-> <<"[">> \o name(d) \o <<"] can only be present once">>]

\* the error of opts.Validate, returned as it is
ErrValidate ==
    [kind |-> "ValidationFailed", msg |-> <<"validator: rejected">>]

\* "[%s] must be followed by a string" / "... by a path to file"
ErrMissing(d, what) ==
    [kind |-> "ArityMismatch",
     msg |-> <<"[">> \o name(d) \o <<"] must be followed by ", what>>]

\* "[%s] followed by too many arguments"
ErrTooMany(d) ==
    [kind |-> "ArityMismatch",
     msg |-> <<"[">> \o name(d) \o <<"] followed by too many arguments">>]

\* %v of a []string: [a b]
RECURSIVE Spaced(_)
Spaced(vals) ==
    IF vals = Empty THEN Empty
    ELSE IF Len(vals) = 1 THEN vals[1]
    ELSE vals[1] \o <<" ">> \o Spaced(Tail(vals))

\* "bad value for [%s]. Allowed values are %v"
ErrChoice(d) ==
    [kind |-> "InvalidChoice",
     msg |-> <<"bad value for [">> \o name(d) \o <<"]. Allowed values are ">>
             \o <<"[">> \o Spaced(d.selector.vals) \o <<"]">>]

\* the *PathError of os.OpenFile, returned as it is
ErrOpen(path) ==
    [kind |-> "ResourceOpenFailed",
     msg |-> <<"open ">> \o path \o <<": no such file or directory">>]

\* fmt.Errorf("unsupported type [%t]", o.result)
ErrUnsupported ==
    [kind |-> "UnsupportedKind", msg |-> <<"unsupported type [", "%!t(result)", "]">>]

Fail(e, p, r) == [ret |-> "error", err |-> e, parsed |-> p, result |-> r]
Done(r) == [ret |-> "nil", err |-> NoErr, parsed |-> TRUE, result |-> r]
Exit(p, r) == [ret |-> "exit", err |-> NoErr, parsed |-> p, result |-> r]

\* the parsed flag not consulted
isDuplicateOff(d, p) == FALSE

isDuplicate(d, p) == d.unique /\ p

\* only the first choice compared
selectorMatchFirst(d, a) ==
    d.selector.isNil \/ (Len(d.selector.vals) > 0 /\ a[1] = d.selector.vals[1])

selectorMatch(d, a) ==
    d.selector.isNil \/ \E i \in 1..Len(d.selector.vals) : a[1] = d.selector.vals[i]

parseBool(d, p, r, a) == Done(TRUE)

\* the slot written before the choice is checked
parseStringWritesEarly(d, p, r, a) ==
    IF Len(a) < 1 THEN Fail(ErrMissing(d, "a string"), p, r)
    ELSE IF Len(a) > 1 THEN Fail(ErrTooMany(d), p, r)
    ELSE IF ~selectorMatch(d, a) THEN Fail(ErrChoice(d), p, a[1])
    ELSE Done(a[1])

parseString(d, p, r, a) ==
    IF Len(a) < 1 THEN Fail(ErrMissing(d, "a string"), p, r)
    ELSE IF Len(a) > 1 THEN Fail(ErrTooMany(d), p, r)
    ELSE IF ~selectorMatch(d, a) THEN Fail(ErrChoice(d), p, r)
    ELSE Done(a[1])

\* parsed set before the file is opened
parseFileMarksEarly(d, p, r, a, openOk) ==
    IF Len(a) < 1 THEN Fail(ErrMissing(d, "a path to file"), p, r)
    ELSE IF Len(a) > 1 THEN Fail(ErrTooMany(d), p, r)
    ELSE IF ~openOk THEN Fail(ErrOpen(a[1]), TRUE, r)
    ELSE Done([open |-> TRUE, path |-> a[1]])

parseFile(d, p, r, a, openOk) ==
    IF Len(a) < 1 THEN Fail(ErrMissing(d, "a path to file"), p, r)
    ELSE IF Len(a) > 1 THEN Fail(ErrTooMany(d), p, r)
    ELSE IF ~openOk THEN Fail(ErrOpen(a[1]), p, r)
    ELSE Done([open |-> TRUE, path |-> a[1]])

\* the token put in front of the list
parseListPrepend(d, p, r, a) ==
    IF Len(a) < 1 THEN Fail(ErrMissing(d, "a string"), p, r)
    ELSE IF Len(a) > 1 THEN Fail(ErrTooMany(d), p, r)
    ELSE Done(<<a[1]>> \o r)

parseList(d, p, r, a) ==
    IF Len(a) < 1 THEN Fail(ErrMissing(d, "a string"), p, r)
    ELSE IF Len(a) > 1 THEN Fail(ErrTooMany(d), p, r)
    ELSE Done(Append(r, a[1]))

dispatch(d, p, r, a, openOk) ==
    CASE d.kind = "help" -> Exit(p, r)
      [] d.kind = "bool" -> parseBool(d, p, r, a)
      [] d.kind = "string" -> parseString(d, p, r, a)
      [] d.kind = "file" -> parseFile(d, p, r, a, openOk)
      [] d.kind = "list" -> parseList(d, p, r, a)
      [] OTHER -> Fail(ErrUnsupported, p, r)

\* vOk: the validator's verdict on a; openOk: whether os.OpenFile succeeds
parse(d, p, r, a, vOk, openOk) ==
    IF isDuplicate(d, p) THEN Fail(ErrDuplicate(d), p, r)
    ELSE IF d.validate /\ ~vOk THEN Fail(ErrValidate, p, r)
    ELSE dispatch(d, p, r, a, openOk)

----------------------------------------------------------------------------
(* The definitions and inputs explored *)

Alpha == {"-", "x", "y"}
Value == <<"v">>
A == <<"a">>
B == <<"b">>

Kinds == {"bool", "string", "file", "list", "help", "other"}
\* a short name is one character; h is the reserved help marker
ShortNames == {Empty, <<"x">>}
LongNames == {Empty, <<"y">>}

NoSelector == [isNil |-> TRUE, vals |-> Empty]
Selector(v) == [isNil |-> FALSE, vals |-> v]
Selectors(kind) ==
    IF kind = "string"
    THEN {NoSelector, Selector(Empty), Selector(<<A>>), Selector(<<A, B>>)}
    ELSE {NoSelector}

NoFile == [open |-> FALSE, path |-> Empty]

\* what the output slot holds when the arg is constructed
Slots(kind) ==
    CASE kind = "bool" -> {FALSE}
      [] kind = "string" -> {Empty}
      [] kind = "file" -> {NoFile}
      [] kind = "list" -> {Empty, <<B>>}
      [] OTHER -> {Empty}

Defs ==
    UNION {
        [kind : {k}, sname : ShortNames, lname : LongNames, size : 0..MaxSize,
         unique : BOOLEAN, validate : BOOLEAN, selector : Selectors(k),
         slot0 : Slots(k)] : k \in Kinds }

Tokens ==
    UNION {[1..n -> Alpha] : n \in 0..MaxTokLen}
        \cup {ShortHelp, LongHelp, <<"-", "x", "h">>, <<"-", "x", "-", "y">>}

\* one token under test among value tokens
ArgLists ==
    UNION { UNION { {[i \in 1..n |-> IF i = s THEN t ELSE Value] : t \in Tokens}
                    : s \in 1..n } : n \in 1..MaxArgs }

BindTokens == {A, B, ShortHelp}
\* a slice of any length up to MaxBindArgs: one token under test, then values
BindArgs ==
    {Empty} \cup UNION { {[i \in 1..n |-> IF i = 1 THEN t ELSE A] : t \in BindTokens}
                         : n \in 1..MaxBindArgs }

NoCall ==
    [op |-> "none", tok |-> Empty, position |-> 0, args |-> Empty,
     ret |-> "none", err |-> NoErr, vOk |-> TRUE, openOk |-> TRUE,
     argsBefore |-> Empty, parsedBefore |-> FALSE, resultBefore |-> Empty]

----------------------------------------------------------------------------
(* The state machine *)

Start(d) ==
    /\ o = d
    /\ parsed = FALSE
    /\ result = d.slot0
    /\ exited = FALSE
    /\ panicked = FALSE
    /\ calls = 0
    /\ bound = Empty
    /\ last = NoCall

\* check and reduce read only the names, the kind and size, and write only the
\* token list; parse reads and writes only parsed and the output slot.  The two
\* halves are explored apart, each over its full range of inputs, and together
\* (Spec) over one-token lists.  Every instance has at least one name.

\* the instances handed to check and reduce
InitMatch ==
    /\ \E d \in Defs :
          /\ (d.sname # Empty \/ d.lname # Empty)
          /\ ~d.unique /\ ~d.validate /\ d.selector.isNil
          /\ (d.kind = "list" => d.slot0 = Empty)
          /\ Start(d)
    /\ args \in ArgLists

\* the instances handed to parse
InitBind ==
    /\ \E d \in Defs :
          /\ (d.sname # Empty \/ d.lname # Empty)
          /\ d.size = 1
          /\ Start(d)
    /\ args = Empty

\* the instances driven through all three operations: one option token, which
\* may be a help marker
DriveLists ==
    {<<t>> : t \in {ShortHelp, LongHelp, <<"-", "x">>, <<"-", "-", "y">>}}

Init ==
    /\ \E d \in Defs :
          /\ (d.sname # Empty \/ d.lname # Empty)
          /\ d.size = 1
          /\ d.selector \in {NoSelector, Selector(<<A, B>>)}
          /\ (d.kind = "list" => d.slot0 = Empty)
          /\ Start(d)
    /\ args \in DriveLists

Running == ~exited /\ ~panicked

Check(argument) ==
    /\ Running
    /\ exited' = (check(o, argument) = "exit")
    /\ last' = [NoCall EXCEPT !.op = "check", !.tok = argument,
                              !.ret = check(o, argument)]
    /\ UNCHANGED <<o, parsed, result, args, panicked, calls, bound>>

Reduce(position) ==
    /\ Running
    /\ LET r == reduce(o, position, args)
       IN /\ args' = r.args
          /\ panicked' = r.panicked
    /\ last' = [NoCall EXCEPT !.op = "reduce", !.position = position,
                              !.argsBefore = args]
    /\ UNCHANGED <<o, parsed, result, exited, calls, bound>>

Parse(a, vOk, openOk) ==
    /\ Running
    /\ calls < MaxCalls
    /\ LET r == parse(o, parsed, result, a, vOk, openOk)
       IN /\ parsed' = r.parsed
          /\ result' = r.result
          /\ exited' = (r.ret = "exit")
          /\ bound' = IF r.ret = "nil" THEN Append(bound, a) ELSE bound
          /\ last' = [NoCall EXCEPT !.op = "parse", !.args = a, !.ret = r.ret,
                                    !.err = r.err, !.vOk = vOk, !.openOk = openOk,
                                    !.parsedBefore = parsed,
                                    !.resultBefore = result]
    /\ calls' = calls + 1
    /\ UNCHANGED <<o, args, panicked>>

CheckStep == \E position \in 0..(Len(args) - 1) : Check(args[position + 1])

ReduceStep == \E position \in 0..(Len(args) - 1) : Reduce(position)

ParseStep ==
    \E a \in BindArgs :
        \E vOk \in (IF o.validate THEN BOOLEAN ELSE {TRUE}) :
            \E openOk \in (IF o.kind = "file" THEN BOOLEAN ELSE {TRUE}) :
                Parse(a, vOk, openOk)

NextMatch == CheckStep \/ ReduceStep

NextBind == ParseStep

Next == CheckStep \/ ReduceStep \/ ParseStep

Spec == Init /\ [][Next]_vars

SpecMatch == InitMatch /\ [][NextMatch]_vars

SpecBind == InitBind /\ [][NextBind]_vars

----------------------------------------------------------------------------
(* The claims *)

\* The number of follow-on tokens of a definition.  size counts the tokens
\* consumed from the matched one on, the option token included: reduce blanks
\* size tokens starting at position itself.
Arity(d) == d.size - 1

\* the terms the claims are stated in
Rendered(d) ==
    IF d.sname # Empty /\ d.lname # Empty
    THEN <<"-">> \o d.sname \o <<"|", "-", "-">> \o d.lname
    ELSE IF d.sname # Empty THEN <<"-">> \o d.sname
    ELSE <<"-", "-">> \o d.lname
IsLongToken(d, t) == d.lname # Empty /\ t = <<"-", "-">> \o d.lname
IsShortToken(d, t) == d.sname # Empty /\ d.kind # "bool" /\ t = <<"-">> \o d.sname
IsCluster(d, t) ==
    /\ d.kind = "bool" /\ d.sname # Empty
    /\ Len(t) > 1 /\ t[1] = "-" /\ t[2] # "-"
    /\ \E i \in 2..Len(t) : t[i] = d.sname[1]
Without(t, c) == SelectSeq(t, LAMBDA ch : ch # c)
IsHelpToken(t) == t = <<"-", "h">> \/ t = <<"-", "-", "h", "e", "l", "p">>
Reduced == last.op = "reduce"
IsBind == last.op = "parse"
Rejected == IsBind /\ last.ret = "error"
TokenBefore == last.argsBefore[last.position + 1]
PastChecks == ~(o.unique /\ last.parsedBefore) /\ last.vOk
Chosen(d, t) == d.selector.isNil \/ \E i \in 1..Len(d.selector.vals) : d.selector.vals[i] = t

\* C1: on a unique definition the first bind with valid input succeeds and sets
\* parsed, every bind made once parsed is set fails as a duplicate whatever its
\* arguments, and so at most one bind ever succeeds.
C1_UniqueBindsOnce ==
    o.unique =>
        /\ Len(bound) <= 1
        /\ (IsBind /\ last.parsedBefore =>
                last.ret = "error" /\ last.err.kind = "DuplicateOption")
        /\ (IsBind /\ ~last.parsedBefore /\ last.vOk /\ last.openOk
                  /\ o.kind \in {"string", "file", "list"} /\ Len(last.args) = 1
                  /\ Chosen(o, last.args[1]) =>
                last.ret = "nil" /\ parsed)
        /\ (IsBind /\ ~last.parsedBefore /\ last.vOk /\ o.kind = "bool" =>
                last.ret = "nil" /\ parsed)

C1_SecondBindRejected ==
    /\ o.unique /\ IsBind /\ last.parsedBefore /\ Len(bound) = 1
    /\ Len(last.args) = 1 /\ last.vOk /\ last.openOk
    /\ last.err.kind = "DuplicateOption"

\* C2: a parse call that returns an error leaves parsed as it was.
C2_ErrorKeepsParsed == Rejected => parsed = last.parsedBefore

C2_ErrorAfterSuccess ==
    Rejected /\ last.parsedBefore /\ parsed /\ ~o.unique
        /\ last.err.kind = "ArityMismatch"

C4_ClusterRemovesOnlyShortName ==
    /\ (last.op = "check" /\ IsCluster(o, last.tok) => last.ret = "true")
    /\ (Reduced /\ IsCluster(o, TokenBefore) =>
            LET rest == Without(TokenBefore, o.sname[1])
            IN args = [last.argsBefore EXCEPT ![last.position + 1] =
                           IF rest = <<"-">> THEN Empty ELSE rest])

C4_ClusterReduced ==
    /\ Reduced /\ o.kind = "bool"
    /\ TokenBefore = <<"-", "x", "y">>
    /\ args[last.position + 1] = <<"-", "y">>

\* C5 as stated: -h or --help handed to check, or present in the slice handed
\* to parse, ends the process.
C5_HelpTokenAnywhere ==
    /\ (last.op = "check" /\ IsHelpToken(last.tok) => exited)
    /\ (IsBind /\ (\E i \in 1..Len(last.args) : IsHelpToken(last.args[i])) => exited)

\* C5, amended: check ends the process exactly on -h and --help; parse ends it
\* exactly for a help definition that passes the uniqueness and validator
\* checks, whatever tokens its slice holds; the call that ends the process
\* returns nothing and no call follows it.
C5_HelpEndsPass ==
    /\ (last.op = "check" => (exited <=> IsHelpToken(last.tok)))
    /\ (IsBind => (exited <=> o.kind = "help" /\ PastChecks))
    /\ (Reduced => ~exited)
    /\ (exited => last.ret = "exit")

C5_LongHelpChecked == exited /\ last.op = "check" /\ last.tok = LongHelp

\* C6: the output list of an accumulating definition is its initial contents
\* followed by the token of every successful bind, in call order, duplicates
\* kept; failed binds add nothing.
C6_ListAccumulates ==
    o.kind = "list" =>
        result = o.slot0 \o [i \in 1..Len(bound) |-> bound[i][1]]

C6_TwoBoundOneFailed ==
    /\ o.kind = "list" /\ calls = 3 /\ Len(bound) = 2
    /\ result = o.slot0 \o <<A, B>>

\* C7: a single-string bind past the uniqueness and validator checks fails with
\* ArityMismatch on zero tokens and on two or more, succeeds and writes the token
\* on one token that is allowed, and fails with InvalidChoice on one token that
\* no declared choice equals.
C7_SingleStringOutcomes ==
    (o.kind = "string" /\ IsBind /\ PastChecks) =>
        LET a == last.args
        IN /\ (Len(a) # 1 =>
                  last.ret = "error" /\ last.err.kind = "ArityMismatch")
           /\ (Len(a) = 1 /\ Chosen(o, a[1]) =>
                  last.ret = "nil" /\ result = a[1])
           /\ (Len(a) = 1 /\ ~Chosen(o, a[1]) =>
                  last.ret = "error" /\ last.err.kind = "InvalidChoice")

C7_SecondChoiceAccepted ==
    /\ o.kind = "string" /\ IsBind /\ o.selector.vals = <<A, B>>
    /\ last.args = <<B>> /\ last.ret = "nil" /\ result = B

\* C8 as stated: every error parse returns includes the rendered name.
C8_EveryErrorNamesOption == Rejected => Contains(last.err.msg, Rendered(o))

\* C8, amended: the errors parse formats for a duplicate option, an arity
\* mismatch and an invalid choice include the rendered name; the unsupported-kind
\* error does not.
C8_FormattedErrorsNameOption ==
    /\ (Rejected /\ last.err.kind \in {"DuplicateOption", "ArityMismatch", "InvalidChoice"}
            => Contains(last.err.msg, Rendered(o)))
    /\ (Rejected /\ last.err.kind = "UnsupportedKind"
            => ~Contains(last.err.msg, Rendered(o)))

C8_ChoiceErrorBothNames ==
    /\ Rejected /\ last.err.kind = "InvalidChoice"
    /\ o.sname # Empty /\ o.lname # Empty

\* C9: a second reduce at the same position changes nothing the first left, and
\* reduce at a token that matches none of the names changes nothing.
C9_ReduceIdempotent ==
    Reduced =>
        /\ reduce(o, last.position, args) = [args |-> args, panicked |-> FALSE]
        /\ (~(IsLongToken(o, TokenBefore) \/ IsShortToken(o, TokenBefore)
                \/ IsCluster(o, TokenBefore)) => args = last.argsBefore)

\* C10: a parse call that returns an error leaves the output slot as it was.
C10_ErrorKeepsSlot == Rejected => result = last.resultBefore

C10_BadChoiceAfterGoodOne ==
    /\ Rejected /\ o.kind = "string" /\ last.err.kind = "InvalidChoice"
    /\ last.resultBefore = A /\ result = A /\ last.args = <<B>>

====
